---- MODULE Spec2Model ----
(***************************************************************************)
(* Model of milestone1-weather-client.py: WeatherClient.get_coordinates    *)
(* and WeatherClient.get_current_weather on top of a requests.Session      *)
(* whose HTTPAdapter carries urllib3's Retry(total=3, backoff_factor=1,    *)
(* status_forcelist=[429, 500, 502, 503, 504]).                            *)
(*                                                                         *)
(* Python values are modelled as follows:                                  *)
(*   dict            a function whose domain is a set of strings           *)
(*   None / a value  the empty set / a singleton set (Some)                *)
(*   f-string        the sequence of its literal and interpolated parts    *)
(*   exception       a record [cls, message, status_code, url]             *)
(*   URL             a record [base, query]; query is the encoded params   *)
(***************************************************************************)
EXTENDS Integers, Sequences, FiniteSets, TLC

VARIABLES pc, method, args, params, retries, history, result, requests_version

vars == <<pc, method, args, params, retries, history, result, requests_version>>

(***************************************************************************)
(* Python value helpers                                                    *)
(***************************************************************************)
EmptyDict == [k \in {} |-> 0]

None == {}

Some(v) == {v}

\* dict.get(key, default)
Get(d, key, default) == IF key \in DOMAIN d THEN d[key] ELSE default

\* dict.get(key): the value wrapped as an optional, None when the key is absent
GetOpt(d, key) == IF key \in DOMAIN d THEN Some(d[key]) ELSE None

Restrict(d, keys) == [k \in (DOMAIN d \cap keys) |-> d[k]]

(***************************************************************************)
(* Bounds of the model                                                     *)
(***************************************************************************)
\* longest `results` list a geocoding body carries
MaxResults == 2

(***************************************************************************)
(* WeatherClient.__init__ and _create_session                              *)
(***************************************************************************)
geocoding_url == "https://geocoding-api.open-meteo.com/v1/search"

weather_url == "https://api.open-meteo.com/v1/forecast"

\* Retry(total=3, ...)
total == 3

status_forcelist == {429, 500, 502, 503, 504}

\* urllib3 Retry.RETRY_AFTER_STATUS_CODES; respect_retry_after_header is left
\* at its default (True) by _create_session
RETRY_AFTER_STATUS_CODES == {413, 429, 503}

\* a URL without query string (self.geocoding_url, self.weather_url)
BareUrl(base) == [base |-> base, query |-> EmptyDict]

\* response.url: the URL requests prepared from the base URL and the params
FinalUrl(base, p) == [base |-> base, query |-> p]

(***************************************************************************)
(* Inputs                                                                  *)
(***************************************************************************)
Cities == {"Paris", "Atlantis"}

Countries == {"", "FR"}

Points == {[latitude |-> 48, longitude |-> 2]}

NoArgs == [city |-> "", country |-> "", latitude |-> 0, longitude |-> 0]

(***************************************************************************)
(* What one attempt of the mounted adapter can observe                     *)
(***************************************************************************)
ErrorStatuses == {404, 413, 503}

TransportErrors == {"ConnectTimeoutError", "ReadTimeoutError", "NewConnectionError"}

NotJSON == [json |-> FALSE, data |-> EmptyDict]

Json(d) == [json |-> TRUE, data |-> d]

HttpResponse(status, retry_after, body) ==
    [type |-> "response", status |-> status, retry_after |-> retry_after, body |-> body]

TransportError(e) ==
    [type |-> e, status |-> 0, retry_after |-> FALSE, body |-> NotJSON]

LocA == [latitude |-> 48, longitude |-> 2, name |-> "Paris", country |-> "France",
         timezone |-> "Europe/Paris", elevation |-> 42]

LocB == [latitude |-> 33, longitude |-> 97, name |-> "Paris, Texas", country |-> "United States",
         timezone |-> "America/Chicago", elevation |-> 183]

RequiredKeys == {"latitude", "longitude", "name"}

OptionalKeys == {"country", "timezone", "elevation"}

\* first elements: every combination of optional fields, and each required
\* field missing in turn
FirstLocations ==
    { Restrict(LocA, RequiredKeys \cup opt) : opt \in SUBSET OptionalKeys }
    \cup { Restrict(LocA, (RequiredKeys \cup OptionalKeys) \ {k}) : k \in RequiredKeys }
    \cup { LocB }

LaterLocations == {LocA, LocB}

RECURSIVE Tails(_)
Tails(n) == IF n = 0 THEN { <<>> }
            ELSE Tails(n - 1) \cup { <<l>> \o t : l \in LaterLocations, t \in Tails(n - 1) }

ResultLists == { <<>> } \cup { <<f>> \o t : f \in FirstLocations, t \in Tails(MaxResults - 1) }

GeocodingBodies ==
    { NotJSON, Json(EmptyDict) } \cup { Json([results |-> r]) : r \in ResultLists }

CurrentWeather == [temperature |-> 0, windspeed |-> 12, time |-> "2024-01-01T12:00", weathercode |-> 3]

WeatherKeys == {"temperature", "windspeed", "time", "weathercode"}

ForecastBodies ==
    { NotJSON, Json(EmptyDict) }
    \cup { Json([current_weather |-> Restrict(CurrentWeather, ks)]) : ks \in SUBSET WeatherKeys }

Bodies(m) == IF m = "get_coordinates" THEN GeocodingBodies ELSE ForecastBodies

Outcomes(m) ==
    { HttpResponse(200, FALSE, b) : b \in Bodies(m) }
    \cup { HttpResponse(s, ra, NotJSON) : s \in ErrorStatuses, ra \in BOOLEAN }
    \cup { TransportError(e) : e \in TransportErrors }

(***************************************************************************)
(* The retry policy mounted by _create_session (urllib3.util.retry.Retry)  *)
(***************************************************************************)
\* variant: every error status is retried
is_retry_any_error(tot, status_code, has_retry_after) == status_code >= 400

\* Retry.is_retry for a GET: a forced status, or a Retry-After response with
\* a status of RETRY_AFTER_STATUS_CODES while retries remain
is_retry(tot, status_code, has_retry_after) ==
    \/ status_code \in status_forcelist
    \/ (tot # 0 /\ has_retry_after /\ status_code \in RETRY_AFTER_STATUS_CODES)

\* variant: one retry too many
is_exhausted_off_by_one(tot) == tot < -1

\* Retry.is_exhausted: the counter left by Retry.increment is negative
is_exhausted(tot) == tot < 0

\* the attempt's outcome makes urlopen call Retry.increment
Retryable(tot, o) ==
    IF o.type = "response" THEN is_retry(tot, o.status, o.retry_after) ELSE TRUE

\* urlopen sleeps and sends again
WillRetry(tot, o) == Retryable(tot, o) /\ ~is_exhausted(tot - 1)

(***************************************************************************)
(* Exceptions                                                              *)
(***************************************************************************)
Exc(cls, message, status_code, url) ==
    [cls |-> cls, message |-> message, status_code |-> status_code, url |-> url]

NoExc == Exc("", <<>>, None, None)

WeatherAPIError(message, status_code, url) == Exc("WeatherAPIError", message, status_code, url)

\* LocationNotFoundError(location): no status_code and no url keyword is passed
LocationNotFoundError(location) ==
    [WeatherAPIError(<<"Weather location not found: ">> \o location, None, None)
        EXCEPT !.cls = "LocationNotFoundError"]

\* dict[key] on a missing key
KeyError(key) == Exc("KeyError", <<key>>, None, None)

\* an exception of the requests library, as raised by Session.get / Response.json
RequestsError(cls) == Exc(cls, <<cls>>, None, None)

\* requests.exceptions class hierarchy
Timeout == {"ConnectTimeout", "ReadTimeout"}

ConnectionError == {"ConnectionError", "ConnectTimeout"}

\* requests >= 2.27 raises requests.exceptions.JSONDecodeError from
\* Response.json(), a subclass of both RequestException and
\* json.JSONDecodeError; older releases raise json.JSONDecodeError itself
RequestsVersions == {"pre-2.27", "2.27+"}

RequestException(version) ==
    Timeout \cup ConnectionError \cup {"RetryError"}
    \cup (IF version = "2.27+" THEN {"JSONDecodeError"} ELSE {})

JSONDecodeError == {"JSONDecodeError"}

Return(value) == [tag |-> "return", exc |-> NoExc, value |-> value]

Raise(exc) == [tag |-> "raise", exc |-> exc, value |-> EmptyDict]

NoResult == [tag |-> "none", exc |-> NoExc, value |-> EmptyDict]

(***************************************************************************)
(* session.get(url, params=params, timeout=10)                             *)
(***************************************************************************)
\* HTTPAdapter.send maps urllib3's MaxRetryError by its reason
MaxRetryError(o) ==
    IF o.type = "response" THEN "RetryError"
    ELSE IF o.type = "ConnectTimeoutError" THEN "ConnectTimeout"
    ELSE "ConnectionError"

\* variant: a response that arrives after a retry is still reported as a
\* retry failure
session_get_raises_after_retry(tot, o) ==
    IF Retryable(tot, o) \/ tot < total THEN Raise(RequestsError(MaxRetryError(o)))
    ELSE Return(o)

\* what session.get hands to the caller after its last attempt o, made with
\* tot retries left
session_get(tot, o) ==
    IF Retryable(tot, o) THEN Raise(RequestsError(MaxRetryError(o)))
    ELSE Return(o)

\* Response.ok
ok(response) == response.status < 400

\* Response.reason
reason(status) ==
    CASE status = 404 -> "Not Found"
      [] status = 413 -> "Payload Too Large"
      [] status = 429 -> "Too Many Requests"
      [] status = 503 -> "Service Unavailable"
      [] OTHER -> "OK"

(***************************************************************************)
(* WeatherClient.get_coordinates                                           *)
(***************************************************************************)
\* the query parameters; country only when it is a non-empty string
geocoding_params(city, country) ==
    LET base == [name |-> city, count |-> 1, language |-> "en", format |-> "json"]
    IN  IF country # "" THEN base @@ [country |-> country] ELSE base

\* `not data.get("results")`: the key is absent or the list is empty
no_results(data) == Get(data, "results", <<>>) = <<>>

\* variant: the last result is projected instead of the first
coordinates_of_last(data) ==
    LET location == data["results"][Len(data["results"])]
    IN  IF RequiredKeys \subseteq DOMAIN location
        THEN Return([latitude  |-> location["latitude"],
                     longitude |-> location["longitude"],
                     name      |-> location["name"],
                     country   |-> Get(location, "country", ""),
                     timezone  |-> Get(location, "timezone", ""),
                     elevation |-> Get(location, "elevation", 0)])
        ELSE Raise(KeyError("latitude"))

\* the projection of the first result; a missing required key raises KeyError
coordinates_of(data) ==
    LET location == data["results"][1]
    IN  IF "latitude" \notin DOMAIN location THEN Raise(KeyError("latitude"))
        ELSE IF "longitude" \notin DOMAIN location THEN Raise(KeyError("longitude"))
        ELSE IF "name" \notin DOMAIN location THEN Raise(KeyError("name"))
        ELSE Return([latitude  |-> location["latitude"],
                     longitude |-> location["longitude"],
                     name      |-> location["name"],
                     country   |-> Get(location, "country", ""),
                     timezone  |-> Get(location, "timezone", ""),
                     elevation |-> Get(location, "elevation", 0)])

\* the body of the try block, given what session.get produced
geocoding_try(got, city, country, p) ==
    IF got.tag = "raise" THEN got
    ELSE LET response == got.value
         IN  IF ~ok(response)
             THEN Raise(WeatherAPIError(
                      <<"Geocoding API request failed: ", reason(response.status)>>,
                      Some(response.status), Some(FinalUrl(geocoding_url, p))))
             ELSE IF ~response.body.json THEN Raise(RequestsError("JSONDecodeError"))
             ELSE IF no_results(response.body.data)
             THEN Raise(LocationNotFoundError(<<city, ", ", country>>))
             ELSE coordinates_of(response.body.data)

\* variant: a trailing `except Exception` rewrites whatever is left
geocoding_except_catch_all(r, version, p) ==
    IF r.tag # "raise" THEN r
    ELSE IF r.exc.cls \in Timeout
    THEN Raise(WeatherAPIError(<<"Request timed out">>, None, Some(BareUrl(geocoding_url))))
    ELSE IF r.exc.cls \in ConnectionError
    THEN Raise(WeatherAPIError(<<"Connection failed">>, None, Some(BareUrl(geocoding_url))))
    ELSE Raise(WeatherAPIError(<<"Request failed: ", r.exc.cls>>, None, Some(BareUrl(geocoding_url))))

\* the except clauses, tried in order; any other exception propagates
geocoding_except(r, version, p) ==
    IF r.tag # "raise" THEN r
    ELSE IF r.exc.cls \in Timeout
    THEN Raise(WeatherAPIError(<<"Request timed out">>, None, Some(BareUrl(geocoding_url))))
    ELSE IF r.exc.cls \in ConnectionError
    THEN Raise(WeatherAPIError(<<"Connection failed">>, None, Some(BareUrl(geocoding_url))))
    ELSE IF r.exc.cls \in RequestException(version)
    THEN Raise(WeatherAPIError(<<"Request failed: ", r.exc.cls>>, None, Some(BareUrl(geocoding_url))))
    ELSE IF r.exc.cls \in JSONDecodeError
    THEN Raise(WeatherAPIError(<<"Invalid JSON response">>, None, Some(FinalUrl(geocoding_url, p))))
    ELSE r

get_coordinates(got, city, country, version) ==
    LET p == geocoding_params(city, country)
    IN  geocoding_except(geocoding_try(got, city, country, p), version, p)

(***************************************************************************)
(* WeatherClient.get_current_weather                                       *)
(***************************************************************************)
weather_params(latitude, longitude) ==
    [latitude |-> latitude, longitude |-> longitude, current_weather |-> "true", timezone |-> "auto"]

\* variant: one missing field blanks the whole reading
reading_of_all_or_nothing(data) ==
    LET current == Get(data, "current_weather", EmptyDict)
        complete == WeatherKeys \subseteq DOMAIN current
    IN  [temperature_c    |-> IF complete THEN Some(current["temperature"]) ELSE None,
         windspeed_kmh    |-> IF complete THEN Some(current["windspeed"]) ELSE None,
         observation_time |-> IF complete THEN Some(current["time"]) ELSE None,
         weather_code     |-> IF complete THEN Some(current["weathercode"]) ELSE None]

\* the reading projected from data.get("current_weather", {})
reading_of(data) ==
    LET current == Get(data, "current_weather", EmptyDict)
    IN  [temperature_c    |-> GetOpt(current, "temperature"),
         windspeed_kmh    |-> GetOpt(current, "windspeed"),
         observation_time |-> GetOpt(current, "time"),
         weather_code     |-> GetOpt(current, "weathercode")]

weather_try(got, p) ==
    IF got.tag = "raise" THEN got
    ELSE LET response == got.value
         IN  IF ~ok(response)
             THEN Raise(WeatherAPIError(
                      <<"Weather API request failed: ", reason(response.status)>>,
                      Some(response.status), Some(FinalUrl(weather_url, p))))
             ELSE IF ~response.body.json THEN Raise(RequestsError("JSONDecodeError"))
             ELSE Return(reading_of(response.body.data))

\* variant: the timeout clause raises without the url keyword
weather_except_no_url(r, version, p) ==
    IF r.tag # "raise" THEN r
    ELSE IF r.exc.cls \in Timeout
    THEN Raise(WeatherAPIError(<<"Weather request timed out">>, None, None))
    ELSE IF r.exc.cls \in ConnectionError
    THEN Raise(WeatherAPIError(<<"Weather connection failed">>, None, Some(BareUrl(weather_url))))
    ELSE IF r.exc.cls \in RequestException(version)
    THEN Raise(WeatherAPIError(<<"Weather request failed: ", r.exc.cls>>, None, Some(BareUrl(weather_url))))
    ELSE IF r.exc.cls \in JSONDecodeError
    THEN Raise(WeatherAPIError(<<"Invalid weather JSON response">>, None, Some(FinalUrl(weather_url, p))))
    ELSE r

weather_except(r, version, p) ==
    IF r.tag # "raise" THEN r
    ELSE IF r.exc.cls \in Timeout
    THEN Raise(WeatherAPIError(<<"Weather request timed out">>, None, Some(BareUrl(weather_url))))
    ELSE IF r.exc.cls \in ConnectionError
    THEN Raise(WeatherAPIError(<<"Weather connection failed">>, None, Some(BareUrl(weather_url))))
    ELSE IF r.exc.cls \in RequestException(version)
    THEN Raise(WeatherAPIError(<<"Weather request failed: ", r.exc.cls>>, None, Some(BareUrl(weather_url))))
    ELSE IF r.exc.cls \in JSONDecodeError
    THEN Raise(WeatherAPIError(<<"Invalid weather JSON response">>, None, Some(FinalUrl(weather_url, p))))
    ELSE r

get_current_weather(got, latitude, longitude, version) ==
    LET p == weather_params(latitude, longitude)
    IN  weather_except(weather_try(got, p), version, p)

(***************************************************************************)
(* State machine: one call at a time, one step per HTTP attempt            *)
(***************************************************************************)
Init ==
    /\ pc = "idle"
    /\ method = "none"
    /\ args = NoArgs
    /\ params = EmptyDict
    /\ retries = total
    /\ history = <<>>
    /\ result = NoResult
    /\ requests_version \in RequestsVersions

\* the caller enters get_coordinates(city, country)
CallGetCoordinates(city, country) ==
    /\ pc = "idle"
    /\ pc' = "request"
    /\ method' = "get_coordinates"
    /\ args' = [NoArgs EXCEPT !.city = city, !.country = country]
    /\ params' = geocoding_params(city, country)
    /\ retries' = total
    /\ history' = <<>>
    /\ result' = NoResult
    /\ UNCHANGED requests_version

\* the caller enters get_current_weather(latitude, longitude)
CallGetCurrentWeather(latitude, longitude) ==
    /\ pc = "idle"
    /\ pc' = "request"
    /\ method' = "get_current_weather"
    /\ args' = [NoArgs EXCEPT !.latitude = latitude, !.longitude = longitude]
    /\ params' = weather_params(latitude, longitude)
    /\ retries' = total
    /\ history' = <<>>
    /\ result' = NoResult
    /\ UNCHANGED requests_version

\* an attempt fails in a way the retry policy retries: Retry.increment, sleep
AttemptRetried(o) ==
    /\ pc = "request"
    /\ WillRetry(retries, o)
    /\ retries' = retries - 1
    /\ history' = Append(history, o)
    /\ UNCHANGED <<pc, method, args, params, result, requests_version>>

\* the last attempt: session.get returns or raises and the method runs to
\* its return or raise
AttemptFinal(o) ==
    /\ pc = "request"
    /\ ~WillRetry(retries, o)
    /\ history' = Append(history, o)
    /\ result' = IF method = "get_coordinates"
                 THEN get_coordinates(session_get(retries, o), args.city, args.country,
                                      requests_version)
                 ELSE get_current_weather(session_get(retries, o), args.latitude,
                                          args.longitude, requests_version)
    /\ pc' = "done"
    /\ UNCHANGED <<method, args, params, retries, requests_version>>

\* the caller has the record or the exception; the client is ready again
Finish ==
    /\ pc = "done"
    /\ pc' = "idle"
    /\ method' = "none"
    /\ args' = NoArgs
    /\ params' = EmptyDict
    /\ retries' = total
    /\ history' = <<>>
    /\ result' = NoResult
    /\ UNCHANGED requests_version

Next ==
    \/ \E city \in Cities, country \in Countries : CallGetCoordinates(city, country)
    \/ \E point \in Points : CallGetCurrentWeather(point.latitude, point.longitude)
    \/ \E o \in Outcomes(method) : AttemptRetried(o)
    \/ \E o \in Outcomes(method) : AttemptFinal(o)
    \/ Finish

Spec == Init /\ [][Next]_vars

(***************************************************************************)
(* Vocabulary of the properties                                            *)
(***************************************************************************)
Range(f) == { f[i] : i \in DOMAIN f }

Last(seq) == seq[Len(seq)]

\* the error kinds of the taxonomy, read off the exception a caller catches
Kind(exc) ==
    IF exc.cls = "LocationNotFoundError" THEN "LocationNotFound"
    ELSE IF exc.cls # "WeatherAPIError" THEN "Uncaught"
    ELSE IF exc.status_code # None THEN "HttpError"
    ELSE IF exc.message[1] \in {"Request timed out", "Weather request timed out"}
    THEN "RequestTimeout"
    ELSE IF exc.message[1] \in {"Connection failed", "Weather connection failed"}
    THEN "ConnectionFailed"
    ELSE IF exc.message[1] \in {"Invalid JSON response", "Invalid weather JSON response"}
    THEN "InvalidResponse"
    ELSE "RequestFailed"

Taxonomy == {"LocationNotFound", "InvalidResponse", "RequestTimeout", "ConnectionFailed", "HttpError"}

Done == pc = "done"

Failed == Done /\ result.tag = "raise"

Returned == Done /\ result.tag = "return"

\* the retryable statuses the specification lists
ListedRetryStatuses == {429, 500, 502, 503, 504}

IsStatus(o) == o.type = "response" /\ o.status >= 400

IsListedFailure(o) == o.type # "response" \/ o.status \in ListedRetryStatuses

\* the attempts that were followed by another attempt
RetriedAttempts == IF pc = "done" THEN 1 .. (Len(history) - 1) ELSE 1 .. Len(history)

\* the last attempt answered 2xx with a JSON body
GotJson == Done /\ Last(history).type = "response" /\ ok(Last(history)) /\ Last(history).body.json

LastData == Last(history).body.data

HasResults == "results" \in DOMAIN LastData /\ LastData["results"] # <<>>

FirstResult == LastData["results"][1]

(***************************************************************************)
(* C1: a call makes at most 4 attempts, and an attempt is followed by      *)
(* another only if it failed with a status of {429, 500, 502, 503, 504}    *)
(* or with a connection or timeout failure.                                *)
(***************************************************************************)
\* C1 as stated
C1_Original ==
    /\ Len(history) <= 4
    /\ \A k \in RetriedAttempts : IsListedFailure(history[k])

\* C1 amended: at most 4 attempts, and an attempt is followed by another
\* only if it failed with a listed status, with a connection or timeout
\* failure, or with status 413 and a Retry-After header
C1_RetryBound ==
    /\ Len(history) <= 4
    /\ \A k \in RetriedAttempts :
          \/ IsListedFailure(history[k])
          \/ (history[k].status = 413 /\ history[k].retry_after)

C1_Witness ==
    /\ Done /\ Len(history) = 4
    /\ \E k \in 1 .. 3 : history[k].status = 413 /\ history[k].retry_after
    /\ \E k \in 1 .. 3 : history[k].status = 503
    /\ \E k \in 1 .. 3 : history[k].type = "ReadTimeoutError"

(***************************************************************************)
(* C2: a first attempt answered with a non-retryable HTTP error status     *)
(* fails the call at once with an HttpError carrying that status, after    *)
(* exactly one attempt.                                                    *)
(***************************************************************************)
FailsAtOnce ==
    /\ Len(history) = 1
    /\ result.tag = "raise"
    /\ Kind(result.exc) = "HttpError"
    /\ result.exc.status_code = Some(history[1].status)

\* C2 as stated: non-retryable is every error status outside the listed set
C2_Original ==
    (Done /\ IsStatus(history[1]) /\ history[1].status \notin ListedRetryStatuses)
        => FailsAtOnce

\* C2 amended: the status is outside the listed set and the response is not
\* a 413 carrying a Retry-After header
C2_NonRetryableFailsAtOnce ==
    (/\ Done /\ IsStatus(history[1]) /\ history[1].status \notin ListedRetryStatuses
     /\ ~(history[1].status = 413 /\ history[1].retry_after))
        => FailsAtOnce

C2_Witness ==
    /\ Done /\ history = << HttpResponse(404, FALSE, NotJSON) >>
    /\ method = "get_current_weather"
    /\ result.exc.status_code = Some(404)

(***************************************************************************)
(* C3: when the attempts before the last all failed and were retried and   *)
(* the last attempt (the 4th at most) succeeds, the call returns the       *)
(* record projected from the last attempt's body and raises nothing; in    *)
(* particular 503, 503, success returns the successful result.             *)
(***************************************************************************)
WellFormedFirst == HasResults /\ RequiredKeys \subseteq DOMAIN FirstResult

C3_RetryRecovers ==
    (/\ GotJson /\ Len(history) > 1
     /\ method = "get_coordinates" => WellFormedFirst)
        => /\ Len(history) <= 4
           /\ result.tag = "return"
           /\ result.exc = NoExc
           /\ method = "get_coordinates" =>
                 /\ result.value["latitude"] = FirstResult["latitude"]
                 /\ result.value["name"] = FirstResult["name"]
           /\ method = "get_current_weather" =>
                 result.value["temperature_c"] =
                     (IF "current_weather" \in DOMAIN LastData
                         /\ "temperature" \in DOMAIN LastData["current_weather"]
                      THEN {LastData["current_weather"]["temperature"]} ELSE {})

C3_Witness ==
    /\ Returned /\ method = "get_coordinates"
    /\ history = << HttpResponse(503, FALSE, NotJSON), HttpResponse(503, FALSE, NotJSON),
                    HttpResponse(200, FALSE, Json([results |-> <<LocA>>])) >>
    /\ result.value = LocA

(***************************************************************************)
(* C4: when all 4 attempts fail with retryable conditions the call raises  *)
(* one error of the kind of the last failure: a status on the last attempt *)
(* gives HttpError with that status, timeouts on all attempts give         *)
(* RequestTimeout, connection failures on all attempts give                *)
(* ConnectionFailed.                                                       *)
(***************************************************************************)
IsTimeoutFailure(o) == o.type \in {"ConnectTimeoutError", "ReadTimeoutError"}

IsConnectionFailure(o) == o.type = "NewConnectionError"

AllAttempts(P(_)) == \A k \in 1 .. Len(history) : P(history[k])

C4_LastFailureSurfaced ==
    (Done /\ Len(history) = 4 /\ AllAttempts(IsListedFailure))
        => /\ result.tag = "raise"
           /\ IsStatus(Last(history)) =>
                 /\ Kind(result.exc) = "HttpError"
                 /\ result.exc.status_code = Some(Last(history).status)
           /\ AllAttempts(IsTimeoutFailure) => Kind(result.exc) = "RequestTimeout"
           /\ AllAttempts(IsConnectionFailure) => Kind(result.exc) = "ConnectionFailed"

(***************************************************************************)
(* C5: a 2xx geocoding response whose payload has an empty or absent       *)
(* `results` list makes get_coordinates raise LocationNotFound with the    *)
(* city and the country in its message; no other outcome has that kind     *)
(* and the except clauses leave it as raised.                              *)
(***************************************************************************)
C5_LocationNotFound ==
    /\ (GotJson /\ method = "get_coordinates" /\ ~HasResults)
          => /\ result.tag = "raise"
             /\ result.exc.cls = "LocationNotFoundError"
             /\ Kind(result.exc) = "LocationNotFound"
             /\ result.exc.message[1] = "Weather location not found: "
             /\ {args.city, args.country} \subseteq Range(Tail(result.exc.message))
    /\ (Failed /\ Kind(result.exc) = "LocationNotFound")
          => (GotJson /\ method = "get_coordinates" /\ ~HasResults)

C5_Witness ==
    /\ Failed /\ args.city = "Atlantis" /\ args.country = "FR"
    /\ Last(history).body = Json([results |-> <<>>])
    /\ result.exc.message = <<"Weather location not found: ", "Atlantis", ", ", "FR">>

(***************************************************************************)
(* C6: a 2xx geocoding response whose first result lacks latitude or       *)
(* longitude makes get_coordinates raise InvalidResponse, an error of the  *)
(* taxonomy, and build no record.                                          *)
(***************************************************************************)
C6_MissingCoordinateInvalid ==
    (/\ GotJson /\ method = "get_coordinates" /\ HasResults
     /\ ~({"latitude", "longitude"} \subseteq DOMAIN FirstResult))
        => /\ result.tag = "raise"
           /\ result.value = EmptyDict
           /\ Kind(result.exc) = "InvalidResponse"

(***************************************************************************)
(* C7: a last attempt answered 2xx with a body that is not JSON makes the  *)
(* call raise InvalidResponse, not the generic request failure of the      *)
(* earlier except clauses.                                                 *)
(***************************************************************************)
C7_UnparseableInvalid ==
    (/\ Done /\ Last(history).type = "response" /\ ok(Last(history))
     /\ ~Last(history).body.json)
        => /\ result.tag = "raise"
           /\ Kind(result.exc) = "InvalidResponse"

(***************************************************************************)
(* C8: for a 2xx forecast response each of the four fields of the reading  *)
(* is the field of `current_weather` when present and None otherwise,      *)
(* each independently of the others; without `current_weather` all four    *)
(* are None and nothing is raised.                                         *)
(***************************************************************************)
FieldOf == [temperature_c |-> "temperature", windspeed_kmh |-> "windspeed",
            observation_time |-> "time", weather_code |-> "weathercode"]

LastCurrent ==
    IF "current_weather" \in DOMAIN LastData THEN LastData["current_weather"] ELSE EmptyDict

C8_ReadingFields ==
    (GotJson /\ method = "get_current_weather")
        => /\ result.tag = "return"
           /\ DOMAIN result.value = DOMAIN FieldOf
           /\ \A f \in DOMAIN FieldOf :
                 /\ FieldOf[f] \in DOMAIN LastCurrent
                       => result.value[f] = {LastCurrent[FieldOf[f]]}
                 /\ FieldOf[f] \notin DOMAIN LastCurrent => result.value[f] = {}

C8_Witness ==
    /\ Returned /\ method = "get_current_weather"
    /\ LastData = [current_weather |-> [temperature |-> 0]]
    /\ result.value = [temperature_c |-> {0}, windspeed_kmh |-> {},
                       observation_time |-> {}, weather_code |-> {}]

(***************************************************************************)
(* C9: for a 2xx geocoding response with a non-empty `results` list whose  *)
(* first element has latitude, longitude and name, get_coordinates returns *)
(* those of the first element, and the first element's country, timezone   *)
(* and elevation, or "", "" and 0 where it lacks them.                     *)
(***************************************************************************)
C9_FirstResultProjected ==
    (GotJson /\ method = "get_coordinates" /\ WellFormedFirst)
        => /\ result.tag = "return"
           /\ DOMAIN result.value = RequiredKeys \cup OptionalKeys
           /\ \A k \in RequiredKeys : result.value[k] = FirstResult[k]
           /\ \A k \in OptionalKeys \cap DOMAIN FirstResult : result.value[k] = FirstResult[k]
           /\ "country" \notin DOMAIN FirstResult => result.value["country"] = ""
           /\ "timezone" \notin DOMAIN FirstResult => result.value["timezone"] = ""
           /\ "elevation" \notin DOMAIN FirstResult => result.value["elevation"] = 0

C9_Witness ==
    /\ Returned /\ method = "get_coordinates"
    /\ LastData["results"] = << Restrict(LocA, RequiredKeys), LocB >>
    /\ result.value = [latitude |-> 48, longitude |-> 2, name |-> "Paris", country |-> "",
                       timezone |-> "", elevation |-> 0]

(***************************************************************************)
(* C10: every error of the taxonomy that a call raises carries the URL of  *)
(* the request; only the status code may be missing.                       *)
(***************************************************************************)
\* C10 as stated
C10_Original ==
    (Failed /\ Kind(result.exc) \in Taxonomy \cup {"RequestFailed"})
        => result.exc.url # None

\* C10 amended: every error of the taxonomy other than LocationNotFound
\* carries the URL of the request; LocationNotFound carries neither URL
\* nor status code
C10_ErrorsCarryUrl ==
    (Failed /\ Kind(result.exc) \in Taxonomy \cup {"RequestFailed"})
        => IF Kind(result.exc) = "LocationNotFound"
           THEN result.exc.url = None /\ result.exc.status_code = None
           ELSE \E u \in result.exc.url :
                   u.base = (IF method = "get_coordinates" THEN geocoding_url ELSE weather_url)

C10_Witness ==
    /\ Failed /\ method = "get_coordinates"
    /\ Kind(result.exc) = "RequestTimeout"
    /\ result.exc.url = Some(BareUrl(geocoding_url))
    /\ Len(history) = 4

====
